---- MODULE Spec2Model ----
(***************************************************************************)
(* LLMRouter (backend/modules/llm/llm_router.py) and the provider          *)
(* adapters it drives: construction from the configuration, the initial    *)
(* selection, chat_completion with its failover loop, switch_provider and  *)
(* get_current_provider_info.                                              *)
(*                                                                         *)
(* A provider is identified by its key in provider_classes.  The backends  *)
(* are the environment: avail[k] is what a probe of k's endpoint answers   *)
(* now, works[k] whether a completion request to it succeeds now; both     *)
(* change at any time.  One atomic step of a call is one network reply     *)
(* followed by the local code up to the next access of the shared field    *)
(* current_provider.                                                       *)
(***************************************************************************)
EXTENDS Integers, Sequences, FiniteSets, TLC

VARIABLES
    config,        \* self.config['providers']
    providers,     \* self.providers: keys, in the order built at construction
    current,       \* self.current_provider (NoProvider for None)
    avail,         \* environment: the probe of k answers "available"
    works,         \* environment: a completion request to k succeeds
    initProbes,    \* history: the probes made by _select_provider at construction
    pristine,      \* history: no router operation has started since construction
    pc,            \* per caller: where its operation stands
    target,        \* per caller: the provider whose reply it is waiting for
    idx,           \* per caller: position of the failover loop in self.providers
    firstErr,      \* per caller: the exception e bound by `except Exception as e`
    trace,         \* per caller, history: calls, probes and log lines of its operation
    result,        \* per caller: what its last operation returned or raised
    firstOp,       \* per caller, history: its operation started in the pristine state
    expired,       \* per caller: the deadline its client set for the call has passed
    report,        \* per caller: the list built by list_available_providers, or the
                   \* dict returned by get_current_provider_info
    adapterCall,   \* a single adapter method applied on its own: method and arguments
    adapterRet,    \* ... and what it returned, raised or sent
    tpc,           \* tool turn: where _generate_response_with_plugins stands
    tlog,          \* tool turn, history: requests sent, replies, plugin runs
    tmsg,          \* tool turn: assistant_message of the first-phase reply
    tdec,          \* tool turn: func_name, func_args and the format detected
    treply,        \* tool turn: what the turn returned
    store,         \* the chat_messages table
    nextId,        \* the next autoincrement id of chat_messages
    http           \* the last PUT or DELETE /messages/{id} and its status

\* the router operations' own bookkeeping, and one adapter method taken alone
opvars == <<expired, report>>
routervars == <<config, providers, current, avail, works, initProbes, pristine,
                pc, target, idx, firstErr, trace, result, firstOp>>

fnvars == <<adapterCall, adapterRet>>

\* one tool-enabled chat turn; the message table behind the chat router
turnvars == <<tpc, tlog, tmsg, tdec, treply>>
storevars == <<store, nextId, http>>
appvars == <<turnvars, storevars>>

vars == <<config, providers, current, avail, works, initProbes, pristine,
          pc, target, idx, firstErr, trace, result, firstOp, expired, report,
          adapterCall, adapterRet, tpc, tlog, tmsg, tdec, treply,
          store, nextId, http>>

-----------------------------------------------------------------------------
(* Bounds *)

NumCallers == 2

\* priorities a configuration may give: 1..MaxPriority
MaxPriority == 2

\* timeouts a configuration may give, in seconds: 1..MaxTimeout
MaxTimeout == 12

\* messages in one request: 0..MaxMsgs
MaxMsgs == 3

\* ids of chat_messages rows: 1..MaxMessageId
MaxMessageId == 6

\* seconds within which delete_message takes the latest assistant message
\* for the reply of the recalled one
RecallWindow == 300
Callers == 1..NumCallers

-----------------------------------------------------------------------------
(* Providers and configuration *)

NoProvider == "<None>"
Absent == "<absent>"

\* provider_classes, in dict (declaration) order.  openai_provider.py is not in
\* the tree; the configurations explored leave it disabled.
ProviderClasses ==
    <<"siliconflow", "deepseek", "claude", "gemini", "ollama", "dashscope", "openai">>

ProviderKeys == {ProviderClasses[i] : i \in 1..Len(ProviderClasses)}

\* get_provider_name()
ProviderName(k) ==
    CASE k = "siliconflow" -> "SiliconFlow"
      [] k = "deepseek"    -> "DeepSeek"
      [] k = "claude"      -> "Claude"
      [] k = "gemini"      -> "Gemini"
      [] k = "ollama"      -> "Ollama"
      [] k = "dashscope"   -> "DashScope"
      [] OTHER             -> "OpenAI"

\* the constructors raise ValueError without api_key; OllamaProvider takes none
RequiresApiKey(k) == k # "ollama"

\* str.lower() on the names a caller may pass to switch_provider
SwitchNames == {"DeepSeek", "deepseek", "DashScope", "Ollama", "nosuch"}

Lower(s) ==
    CASE s \in {"DeepSeek", "deepseek", "DEEPSEEK"} -> "deepseek"
      [] s \in {"Ollama", "ollama"}                 -> "ollama"
      [] s \in {"DashScope", "dashscope"}           -> "dashscope"
      [] s \in {"SiliconFlow"}                      -> "siliconflow"
      [] s \in {"Claude"}                           -> "claude"
      [] s \in {"Gemini"}                           -> "gemini"
      [] s \in {"OpenAI"}                           -> "openai"
      [] OTHER                                      -> s

Disabled == [enabled |-> FALSE, api_key |-> FALSE, priority |-> 999, model |-> "default"]

Entry(prio, model) == [enabled |-> TRUE, api_key |-> TRUE, priority |-> prio, model |-> model]

\* _load_config_from_env with DEEPSEEK_API_KEY and DASHSCOPE_API_KEY set and
\* Ollama enabled: default priorities 2, 5, 6 and default models
ConfigDefault ==
    [k \in ProviderKeys |->
        CASE k = "deepseek"  -> Entry(2, "deepseek-chat")
          [] k = "ollama"    -> Entry(5, "qwen2.5:8b")
          [] k = "dashscope" -> Entry(6, "qwen-plus")
          [] OTHER           -> Disabled]

\* the same with DASHSCOPE_PRIORITY=1
ConfigDashFirst ==
    [ConfigDefault EXCEPT !["dashscope"].priority = 1]

\* two backends only
ConfigTwo ==
    [ConfigDefault EXCEPT !["ollama"] = Disabled]

\* a providers[k] dict as a caller of LLMRouter(config) may write it
Variant(k, opt) ==
    [ConfigDefault[k] EXCEPT !.enabled = opt[1], !.api_key = opt[2], !.priority = opt[3]]

\* the configurations LLMRouter(config) is constructed from: each of three
\* backends enabled or not, with or without its api_key, at any priority
ConfigSpace ==
    LET Opts == BOOLEAN \X BOOLEAN \X (1..MaxPriority)
        NoKey == BOOLEAN \X {FALSE} \X (1..MaxPriority)
    IN {[ConfigDefault EXCEPT !["deepseek"] = Variant("deepseek", d),
                              !["ollama"] = Variant("ollama", o),
                              !["dashscope"] = Variant("dashscope", q)] :
           d \in Opts, o \in NoKey, q \in Opts}

Min(S) == CHOOSE x \in S : \A y \in S : x <= y

Range(s) == {s[i] : i \in 1..Len(s)}

\* list.sort(key=lambda x: x[0]): ascending priority, stable
RECURSIVE SortByPriority(_, _)
SortByPriority(keys, cfg) ==
    IF keys = <<>> THEN <<>>
    ELSE LET m == Min({cfg[k].priority : k \in Range(keys)})
             IsMin(k) == cfg[k].priority = m
             NotMin(k) == cfg[k].priority # m
         IN SelectSeq(keys, IsMin) \o SortByPriority(SelectSeq(keys, NotMin), cfg)

\* (mutant) _initialize_providers without the enabled check of lines 116-118
InitializeProviders_NoEnabledCheck(cfg) ==
    LET Built(k) == RequiresApiKey(k) => cfg[k].api_key
    IN SortByPriority(SelectSeq(ProviderClasses, Built), cfg)

\* _initialize_providers: skip the disabled, drop those whose constructor raises,
\* sort the rest by priority
InitializeProviders(cfg) ==
    LET Built(k) == /\ cfg[k].enabled
                    /\ (RequiresApiKey(k) => cfg[k].api_key)
    IN SortByPriority(SelectSeq(ProviderClasses, Built), cfg)

Probe(k, ok) == [ev |-> "probe", p |-> k, res |-> IF ok THEN "yes" ELSE "no"]

\* (mutant) _select_provider without the return: the last available one wins
RECURSIVE SelectProvider_NoReturn(_, _, _)
SelectProvider_NoReturn(provs, av, probed) ==
    IF provs = <<>> THEN [selected |-> NoProvider, probes |-> probed]
    ELSE LET k == Head(provs)
             rest == SelectProvider_NoReturn(Tail(provs), av, Append(probed, Probe(k, av[k])))
         IN IF av[k] /\ rest.selected = NoProvider
            THEN [selected |-> k, probes |-> rest.probes]
            ELSE rest

\* _select_provider: probe in list order, stop at the first available
RECURSIVE SelectProvider(_, _, _)
SelectProvider(provs, av, probed) ==
    IF provs = <<>> THEN [selected |-> NoProvider, probes |-> probed]
    ELSE LET k == Head(provs)
         IN IF av[k]
            THEN [selected |-> k, probes |-> Append(probed, Probe(k, TRUE))]
            ELSE SelectProvider(Tail(provs), av, Append(probed, Probe(k, FALSE)))

\* get_current_provider_info
CurrentProviderInfo ==
    IF current = NoProvider
    THEN [name |-> "None", model |-> Absent, available |-> FALSE]
    ELSE [name |-> ProviderName(current), model |-> config[current].model,
          available |-> TRUE]

-----------------------------------------------------------------------------
(* Results *)

NoResult == [kind |-> "none", provider |-> NoProvider, model |-> Absent, errors |-> <<>>]

\* the LLMResponse an adapter builds from a 200 reply whose "model" field is
\* `reply` (Absent when the reply has none): DashScopeProvider takes
\* result.get('model', self.model), the others self.model
ResponseModel(k, reply) ==
    IF k = "dashscope"
    THEN (IF reply = Absent THEN config[k].model ELSE reply)
    ELSE config[k].model

Response(k, reply) ==
    [kind |-> "response", provider |-> k, model |-> ResponseModel(k, reply),
     errors |-> <<>>]

\* what a backend may put in the "model" field of its reply
ReplyModels(k) == {Absent, config[k].model, "backend-reported"}

CallError(k) == [src |-> k, op |-> "call"]
ProbeError(k) == [src |-> k, op |-> "probe"]

\* (mutant) line 157 raising what line 192 raises
NoProviderError_SameAsAllFailed ==
    [kind |-> "all_failed", provider |-> NoProvider, model |-> Absent, errors |-> <<>>]

\* raise Exception("没有可用的LLM提供商")
NoProviderError ==
    [kind |-> "no_provider", provider |-> NoProvider, model |-> Absent, errors |-> <<>>]

\* raise Exception(f"所有LLM提供商都不可用，最后错误: {e}")
AllFailedError(e) ==
    [kind |-> "all_failed", provider |-> NoProvider, model |-> Absent, errors |-> <<e>>]

CallEv(k, ok) == [ev |-> "call", p |-> k, res |-> IF ok THEN "ok" ELSE "fail"]
ProbeEv(k, r) == [ev |-> "probe", p |-> k, res |-> r]
\* a "[ROUTER] ... 失败: <error>" line, by the error it prints
LogEv(err) == [ev |-> "log", p |-> err.src, res |-> err.op]

IsCall(e) == e.ev = "call"
IsProbe(e) == e.ev = "probe"
IsLog(e) == e.ev = "log"
Calls(c) == SelectSeq(trace[c], IsCall)
Probes(c) == SelectSeq(trace[c], IsProbe)
Logs(c) == SelectSeq(trace[c], IsLog)

\* no adapter method has been applied on its own
NoCall == [method |-> "none", provider |-> NoProvider, input |-> Absent]
NoReturn == [kind |-> "none"]

-----------------------------------------------------------------------------
(* Data of the tool turn and of the message table *)

\* arguments of a tool call as the backend may send them: no entry; a string
\* holding a JSON object with a location, an empty JSON object, text that is
\* not JSON, a JSON array, the JSON null; an object already decoded; null
ArgValues ==
    {"absent", "object_string", "empty_object_string", "malformed_string",
     "array_string", "null_string", "object", "null"}

\* the function names a reply may carry; Absent when it has no "name"
FuncNames == {"get_weather", "get_latest_news", Absent}

NoFunctionCall == [present |-> FALSE, name |-> Absent, arguments |-> "absent"]

\* an assistant message with neither "tool_calls" nor "function_call"
NoMessage ==
    [tool_calls |-> [present |-> FALSE, calls |-> <<>>], function_call |-> NoFunctionCall]

\* func_name = None, func_args = None
NoDecode ==
    [format |-> "none", name |-> Absent, id |-> Absent, raw |-> "absent",
     args |-> [is_map |-> FALSE, keys |-> {}]]

\* chat_messages rows: two sessions of two users, a user message and the
\* assistant's reply in each
InitialStore ==
    {[id |-> 1, session |-> "s1", user |-> "alice", role |-> "user", content |-> "c1", at |-> 1],
     [id |-> 2, session |-> "s1", user |-> "alice", role |-> "assistant", content |-> "r", at |-> 2],
     [id |-> 3, session |-> "s2", user |-> "bob", role |-> "user", content |-> "c1", at |-> 3],
     [id |-> 4, session |-> "s2", user |-> "bob", role |-> "assistant", content |-> "r", at |-> 4]}

NoHttp == [op |-> "none", id |-> 0, user |-> "", status |-> 0]

-----------------------------------------------------------------------------
(* Initial states: the router as constructed *)

InitWith(cfgs) ==
    /\ config \in cfgs
    /\ providers = InitializeProviders(config)
    /\ avail \in [Range(providers) -> BOOLEAN]
    /\ works \in [Range(providers) -> BOOLEAN]
    /\ LET s == SelectProvider(providers, avail, <<>>)
       IN /\ current = s.selected
          /\ initProbes = s.probes
    /\ pristine = TRUE
    /\ pc = [c \in Callers |-> "idle"]
    /\ target = [c \in Callers |-> NoProvider]
    /\ idx = [c \in Callers |-> 0]
    /\ firstErr = [c \in Callers |-> CallError(NoProvider)]
    /\ trace = [c \in Callers |-> <<>>]
    /\ result = [c \in Callers |-> NoResult]
    /\ firstOp = [c \in Callers |-> FALSE]
    /\ expired = [c \in Callers |-> FALSE]
    /\ report = [c \in Callers |-> <<>>]
    /\ adapterCall = NoCall
    /\ adapterRet = NoReturn
    /\ tpc = "start"
    /\ tlog = <<>>
    /\ tmsg = NoMessage
    /\ tdec = NoDecode
    /\ treply = Absent
    /\ store = InitialStore
    /\ nextId = Cardinality(InitialStore) + 1
    /\ http = NoHttp

Init == InitWith({ConfigDefault, ConfigDashFirst, ConfigTwo})

InitConc == InitWith({ConfigTwo})

InitConfig == InitWith(ConfigSpace)

-----------------------------------------------------------------------------
(* Environment *)

\* a backend goes down or comes back, or starts or stops answering completions
EnvChange ==
    \E k \in Range(providers), b \in BOOLEAN :
        /\ \/ avail' = [avail EXCEPT ![k] = b] /\ works' = works
           \/ works' = [works EXCEPT ![k] = b] /\ avail' = avail
        /\ <<avail', works'>> # <<avail, works>>
        /\ UNCHANGED <<appvars, fnvars, opvars, config, providers, current, initProbes, pristine,
                       pc, target, idx, firstErr, trace, result, firstOp>>

-----------------------------------------------------------------------------
(* chat_completion *)

Idle(c) == pc[c] \in {"idle", "done", "switched", "listed", "described"}

\* caller c is inside chat_completion
InFlight(c) == pc[c] \in {"first", "loop", "probe", "fallback"}

\* lines 156-163: no current provider raises at once; otherwise the request
\* goes to self.current_provider
Begin(c) ==
    /\ Idle(c)
    /\ firstOp' = [firstOp EXCEPT ![c] = pristine]
    /\ pristine' = FALSE
    /\ idx' = [idx EXCEPT ![c] = 0]
    /\ firstErr' = [firstErr EXCEPT ![c] = CallError(NoProvider)]
    /\ IF current = NoProvider
       THEN /\ pc' = [pc EXCEPT ![c] = "done"]
            /\ result' = [result EXCEPT ![c] = NoProviderError]
            /\ target' = [target EXCEPT ![c] = NoProvider]
            /\ trace' = [trace EXCEPT ![c] = <<>>]
       ELSE /\ pc' = [pc EXCEPT ![c] = "first"]
            /\ result' = [result EXCEPT ![c] = NoResult]
            /\ target' = [target EXCEPT ![c] = current]
            /\ trace' = [trace EXCEPT ![c] = <<>>]
    /\ expired' = [expired EXCEPT ![c] = FALSE]
    /\ report' = [report EXCEPT ![c] = <<>>]
    /\ UNCHANGED <<appvars, fnvars, config, providers, current, avail, works, initProbes>>

\* (mutant) a successful call re-elects the first provider of the list
FirstSucceeds_Reelects(c) ==
    /\ pc[c] = "first"
    /\ works[target[c]]
    /\ \E reply \in ReplyModels(target[c]) :
          result' = [result EXCEPT ![c] = Response(target[c], reply)]
    /\ trace' = [trace EXCEPT ![c] = Append(@, CallEv(target[c], TRUE))]
    /\ pc' = [pc EXCEPT ![c] = "done"]
    /\ current' = providers[1]
    /\ UNCHANGED <<appvars, fnvars, opvars, config, providers, avail, works, initProbes, pristine,
                   target, idx, firstErr, firstOp>>

\* lines 163/167 return: the current provider answered
FirstSucceeds(c) ==
    /\ pc[c] = "first"
    /\ works[target[c]]
    /\ \E reply \in ReplyModels(target[c]) :
          result' = [result EXCEPT ![c] = Response(target[c], reply)]
    /\ trace' = [trace EXCEPT ![c] = Append(@, CallEv(target[c], TRUE))]
    /\ pc' = [pc EXCEPT ![c] = "done"]
    /\ UNCHANGED <<appvars, fnvars, opvars, config, providers, current, avail, works, initProbes, pristine,
                   target, idx, firstErr, firstOp>>

\* (mutant) the failover loop starts after the provider that failed
FirstFails_AfterFailed(c) ==
    /\ pc[c] = "first"
    /\ ~works[target[c]]
    /\ firstErr' = [firstErr EXCEPT ![c] = CallError(target[c])]
    /\ trace' = [trace EXCEPT ![c] =
                    @ \o <<CallEv(target[c], FALSE), LogEv(CallError(target[c]))>>]
    /\ idx' = [idx EXCEPT ![c] =
                  1 + CHOOSE i \in 1..Len(providers) : providers[i] = target[c]]
    /\ pc' = [pc EXCEPT ![c] = "loop"]
    /\ UNCHANGED <<appvars, fnvars, opvars, config, providers, current, avail, works, initProbes, pristine,
                   target, result, firstOp>>

\* lines 168-169: the current provider failed; e is bound and printed
FirstFails(c) ==
    /\ pc[c] = "first"
    /\ ~works[target[c]]
    /\ firstErr' = [firstErr EXCEPT ![c] = CallError(target[c])]
    /\ trace' = [trace EXCEPT ![c] =
                    @ \o <<CallEv(target[c], FALSE), LogEv(CallError(target[c]))>>]
    /\ idx' = [idx EXCEPT ![c] = 1]
    /\ pc' = [pc EXCEPT ![c] = "loop"]
    /\ UNCHANGED <<appvars, fnvars, opvars, config, providers, current, avail, works, initProbes, pristine,
                   target, result, firstOp>>

\* (mutant) the loop without lines 173-174
LoopSkips_Never(k) == FALSE

\* lines 172-177: the next provider of the list; it is skipped when it is
\* self.current_provider (read now), probed otherwise
LoopSkips(k) == k = current

LoopNext(c) ==
    /\ pc[c] = "loop"
    /\ idx[c] <= Len(providers)
    /\ IF LoopSkips(providers[idx[c]])
       THEN /\ idx' = [idx EXCEPT ![c] = @ + 1]
            /\ UNCHANGED <<pc, target>>
       ELSE /\ pc' = [pc EXCEPT ![c] = "probe"]
            /\ target' = [target EXCEPT ![c] = providers[idx[c]]]
            /\ UNCHANGED idx
    /\ UNCHANGED <<appvars, fnvars, opvars, config, providers, current, avail, works, initProbes, pristine,
                   firstErr, trace, result, firstOp>>

\* (mutant) a call that exhausted the list leaves the router without provider
LoopExhausted_Resets(c) ==
    /\ pc[c] = "loop"
    /\ idx[c] > Len(providers)
    /\ result' = [result EXCEPT ![c] = AllFailedError(firstErr[c])]
    /\ pc' = [pc EXCEPT ![c] = "done"]
    /\ current' = NoProvider
    /\ UNCHANGED <<appvars, fnvars, opvars, config, providers, avail, works, initProbes, pristine,
                   target, idx, firstErr, trace, firstOp>>

\* line 192: the list is exhausted
LoopExhausted(c) ==
    /\ pc[c] = "loop"
    /\ idx[c] > Len(providers)
    /\ result' = [result EXCEPT ![c] = AllFailedError(firstErr[c])]
    /\ pc' = [pc EXCEPT ![c] = "done"]
    /\ UNCHANGED <<appvars, fnvars, opvars, config, providers, current, avail, works, initProbes, pristine,
                   target, idx, firstErr, trace, firstOp>>

\* line 177: is_available() answered True; the request goes to this provider
ProbeAvailable(c) ==
    /\ pc[c] = "probe"
    /\ avail[target[c]]
    /\ trace' = [trace EXCEPT ![c] = Append(@, ProbeEv(target[c], "yes"))]
    /\ pc' = [pc EXCEPT ![c] = "fallback"]
    /\ UNCHANGED <<appvars, fnvars, opvars, config, providers, current, avail, works, initProbes, pristine,
                   target, idx, firstErr, result, firstOp>>

\* line 177: is_available() answered False: next provider, nothing printed
ProbeUnavailable(c) ==
    /\ pc[c] = "probe"
    /\ ~avail[target[c]]
    /\ trace' = [trace EXCEPT ![c] = Append(@, ProbeEv(target[c], "no"))]
    /\ idx' = [idx EXCEPT ![c] = @ + 1]
    /\ pc' = [pc EXCEPT ![c] = "loop"]
    /\ UNCHANGED <<appvars, fnvars, opvars, config, providers, current, avail, works, initProbes, pristine,
                   target, firstErr, result, firstOp>>

\* lines 188-189: is_available() raised: printed, next provider
ProbeRaises(c) ==
    /\ pc[c] = "probe"
    /\ ~avail[target[c]]
    /\ trace' = [trace EXCEPT ![c] =
                    @ \o <<ProbeEv(target[c], "raise"), LogEv(ProbeError(target[c]))>>]
    /\ idx' = [idx EXCEPT ![c] = @ + 1]
    /\ pc' = [pc EXCEPT ![c] = "loop"]
    /\ UNCHANGED <<appvars, fnvars, opvars, config, providers, current, avail, works, initProbes, pristine,
                   target, firstErr, result, firstOp>>

\* (mutant) the failover forgets line 186
FailoverTarget_NotStored(k) == current

\* line 186: what the failover writes to self.current_provider
FailoverTarget(k) == k

\* lines 181-187: the failover provider answered: it becomes current
FallbackSucceeds(c) ==
    /\ pc[c] = "fallback"
    /\ works[target[c]]
    /\ \E reply \in ReplyModels(target[c]) :
          result' = [result EXCEPT ![c] = Response(target[c], reply)]
    /\ trace' = [trace EXCEPT ![c] = Append(@, CallEv(target[c], TRUE))]
    /\ current' = FailoverTarget(target[c])
    /\ pc' = [pc EXCEPT ![c] = "done"]
    /\ UNCHANGED <<appvars, fnvars, opvars, config, providers, avail, works, initProbes, pristine,
                   target, idx, firstErr, firstOp>>

\* (mutant) the failover failure is swallowed without a line
FallbackLog_Silent(k) == <<>>

\* line 189: what is printed when the failover provider's request failed
FallbackLog(k) == <<LogEv(CallError(k))>>

\* (mutant) the failover gives up at the first failover provider that fails
FallbackFails_GivesUp(c) ==
    /\ pc[c] = "fallback"
    /\ ~works[target[c]]
    /\ trace' = [trace EXCEPT ![c] =
                    @ \o <<CallEv(target[c], FALSE)>> \o FallbackLog(target[c])]
    /\ idx' = [idx EXCEPT ![c] = Len(providers) + 1]
    /\ pc' = [pc EXCEPT ![c] = "loop"]
    /\ UNCHANGED <<appvars, fnvars, opvars, config, providers, current, avail, works, initProbes, pristine,
                   target, firstErr, result, firstOp>>

\* lines 188-189: the failover provider failed: printed, next provider
FallbackFails(c) ==
    /\ pc[c] = "fallback"
    /\ ~works[target[c]]
    /\ trace' = [trace EXCEPT ![c] =
                    @ \o <<CallEv(target[c], FALSE)>> \o FallbackLog(target[c])]
    /\ idx' = [idx EXCEPT ![c] = @ + 1]
    /\ pc' = [pc EXCEPT ![c] = "loop"]
    /\ UNCHANGED <<appvars, fnvars, opvars, config, providers, current, avail, works, initProbes, pristine,
                   target, firstErr, result, firstOp>>

-----------------------------------------------------------------------------
(* switch_provider *)

\* the provider of self.providers whose name matches, case-insensitively
Named(name) == {k \in Range(providers) : Lower(ProviderName(k)) = Lower(name)}

\* (mutant) the switch without the probe
SwitchAllowed_Unprobed(k) == TRUE

\* lines 264-273: the switch happens when the probe answers True
SwitchAllowed(k) == avail[k]

\* (mutant) a switch whose probe fails leaves the router without provider
SwitchProvider_Unsets(c, name) ==
    /\ Idle(c)
    /\ firstOp' = [firstOp EXCEPT ![c] = FALSE]
    /\ pristine' = FALSE
    /\ pc' = [pc EXCEPT ![c] = "switched"]
    /\ target' = [target EXCEPT ![c] = NoProvider]
    /\ idx' = [idx EXCEPT ![c] = 0]
    /\ firstErr' = [firstErr EXCEPT ![c] = CallError(NoProvider)]
    /\ IF Named(name) = {}
       THEN /\ trace' = [trace EXCEPT ![c] = <<>>]
            /\ result' = [result EXCEPT ![c] =
                  [kind |-> "switch_failed", provider |-> NoProvider,
                   model |-> Absent, errors |-> <<>>]]
            /\ UNCHANGED current
       ELSE LET k == CHOOSE x \in Named(name) : TRUE
            IN IF SwitchAllowed(k)
               THEN /\ trace' = [trace EXCEPT ![c] = <<ProbeEv(k, "yes")>>]
                    /\ current' = k
                    /\ result' = [result EXCEPT ![c] =
                          [kind |-> "switched", provider |-> k,
                           model |-> Absent, errors |-> <<>>]]
               ELSE /\ \E r \in {"no", "raise"} :
                          trace' = [trace EXCEPT ![c] = <<ProbeEv(k, r)>>]
                    /\ result' = [result EXCEPT ![c] =
                          [kind |-> "switch_failed", provider |-> k,
                           model |-> Absent, errors |-> <<>>]]
                    /\ current' = NoProvider
    /\ expired' = [expired EXCEPT ![c] = FALSE]
    /\ report' = [report EXCEPT ![c] = <<>>]
    /\ UNCHANGED <<appvars, fnvars, config, providers, avail, works, initProbes>>

\* lines 259-276
SwitchProvider(c, name) ==
    /\ Idle(c)
    /\ firstOp' = [firstOp EXCEPT ![c] = FALSE]
    /\ pristine' = FALSE
    /\ pc' = [pc EXCEPT ![c] = "switched"]
    /\ target' = [target EXCEPT ![c] = NoProvider]
    /\ idx' = [idx EXCEPT ![c] = 0]
    /\ firstErr' = [firstErr EXCEPT ![c] = CallError(NoProvider)]
    /\ IF Named(name) = {}
       THEN /\ trace' = [trace EXCEPT ![c] = <<>>]
            /\ result' = [result EXCEPT ![c] =
                  [kind |-> "switch_failed", provider |-> NoProvider,
                   model |-> Absent, errors |-> <<>>]]
            /\ UNCHANGED current
       ELSE LET k == CHOOSE x \in Named(name) : TRUE
            IN IF SwitchAllowed(k)
               THEN /\ trace' = [trace EXCEPT ![c] = <<ProbeEv(k, "yes")>>]
                    /\ current' = k
                    /\ result' = [result EXCEPT ![c] =
                          [kind |-> "switched", provider |-> k,
                           model |-> Absent, errors |-> <<>>]]
               ELSE /\ \E r \in {"no", "raise"} :
                          trace' = [trace EXCEPT ![c] = <<ProbeEv(k, r)>>]
                    /\ result' = [result EXCEPT ![c] =
                          [kind |-> "switch_failed", provider |-> k,
                           model |-> Absent, errors |-> <<>>]]
                    /\ UNCHANGED current
    /\ expired' = [expired EXCEPT ![c] = FALSE]
    /\ report' = [report EXCEPT ![c] = <<>>]
    /\ UNCHANGED <<appvars, fnvars, config, providers, avail, works, initProbes>>

-----------------------------------------------------------------------------
(* list_available_providers and get_current_provider_info *)

\* lines 245-256: the dict appended for provider k; r is what is_available()
\* did: "yes" (True), "no" (False) or "raise"
ListEntry(k, r) ==
    [name |-> ProviderName(k), model |-> config[k].model,
     available |-> (r = "yes"), error |-> (r = "raise")]

\* lines 241-242: result = [], and the loop starts
ListBegin(c) ==
    /\ Idle(c)
    /\ pc' = [pc EXCEPT ![c] = IF providers = <<>> THEN "listed" ELSE "listing"]
    /\ idx' = [idx EXCEPT ![c] = 1]
    /\ report' = [report EXCEPT ![c] = <<>>]
    /\ trace' = [trace EXCEPT ![c] = <<>>]
    /\ result' = [result EXCEPT ![c] = NoResult]
    /\ target' = [target EXCEPT ![c] = NoProvider]
    /\ firstErr' = [firstErr EXCEPT ![c] = CallError(NoProvider)]
    /\ firstOp' = [firstOp EXCEPT ![c] = FALSE]
    /\ expired' = [expired EXCEPT ![c] = FALSE]
    /\ UNCHANGED <<appvars, fnvars, config, providers, current, avail, works, initProbes, pristine>>

\* (mutant) a listing that selects the provider it finds available when the
\* router has none
ListProbe_Selects(c) ==
    /\ pc[c] = "listing"
    /\ LET k == providers[idx[c]]
       IN /\ \E r \in (IF avail[k] THEN {"yes"} ELSE {"no", "raise"}) :
                report' = [report EXCEPT ![c] = Append(@, ListEntry(k, r))]
          /\ current' = IF avail[k] /\ current = NoProvider THEN k ELSE current
    /\ idx' = [idx EXCEPT ![c] = @ + 1]
    /\ pc' = [pc EXCEPT ![c] = IF idx[c] = Len(providers) THEN "listed" ELSE "listing"]
    /\ UNCHANGED <<appvars, fnvars, config, providers, avail, works, initProbes, pristine,
                   target, firstErr, trace, result, firstOp, expired>>

\* lines 243-256: the probe of the next provider answered or raised; after the
\* last one the list is returned
ListProbe(c) ==
    /\ pc[c] = "listing"
    /\ LET k == providers[idx[c]]
       IN \E r \in (IF avail[k] THEN {"yes"} ELSE {"no", "raise"}) :
             report' = [report EXCEPT ![c] = Append(@, ListEntry(k, r))]
    /\ idx' = [idx EXCEPT ![c] = @ + 1]
    /\ pc' = [pc EXCEPT ![c] = IF idx[c] = Len(providers) THEN "listed" ELSE "listing"]
    /\ UNCHANGED <<appvars, fnvars, config, providers, current, avail, works, initProbes, pristine,
                   target, firstErr, trace, result, firstOp, expired>>

\* get_current_provider_info, as an operation of caller c
Describe(c) ==
    /\ Idle(c)
    /\ pc' = [pc EXCEPT ![c] = "described"]
    /\ report' = [report EXCEPT ![c] = <<CurrentProviderInfo>>]
    /\ idx' = [idx EXCEPT ![c] = 0]
    /\ trace' = [trace EXCEPT ![c] = <<>>]
    /\ result' = [result EXCEPT ![c] = NoResult]
    /\ target' = [target EXCEPT ![c] = NoProvider]
    /\ firstErr' = [firstErr EXCEPT ![c] = CallError(NoProvider)]
    /\ firstOp' = [firstOp EXCEPT ![c] = FALSE]
    /\ expired' = [expired EXCEPT ![c] = FALSE]
    /\ UNCHANGED <<appvars, fnvars, config, providers, current, avail, works, initProbes, pristine>>

-----------------------------------------------------------------------------
(* The client's deadline *)

\* chat_completion takes no deadline and reads no clock: the time the client
\* allowed for the call passes while the call is inside the router
DeadlineExpires(c) ==
    /\ InFlight(c)
    /\ ~expired[c]
    /\ expired' = [expired EXCEPT ![c] = TRUE]
    /\ UNCHANGED <<appvars, fnvars, config, providers, current, avail, works, initProbes, pristine,
                   pc, target, idx, firstErr, trace, result, firstOp, report>>

-----------------------------------------------------------------------------
(* The adapters: is_available, the timeouts, the parsing of a reply *)

\* the provider classes whose source is at hand
AdapterKeys == {"siliconflow", "deepseek", "claude", "gemini", "ollama", "dashscope"}

\* how an HTTP request ends: an exception of requests (connection refused,
\* DNS, ...), its timeout, or a reply with a status code
StatusCodes == {200, 400, 401, 403, 404, 429, 500}

Outcomes ==
    {[kind |-> "network_error", status |-> 0], [kind |-> "timeout", status |-> 0]}
       \cup {[kind |-> "status", status |-> s] : s \in StatusCodes}

\* is_available(): the bare except returns False; DashScopeProvider and
\* OllamaProvider want status 200, the others 200 or 400
IsAvailable(k, o) ==
    IF o.kind # "status" THEN FALSE
    ELSE IF k \in {"dashscope", "ollama"} THEN o.status = 200
    ELSE o.status \in {200, 400}

\* the 'timeout' entry of a provider's config: given or not
TimeoutConfigs ==
    {[given |-> FALSE, value |-> 0]}
       \cup {[given |-> TRUE, value |-> t] : t \in 1..MaxTimeout}

\* self.timeout = config.get('timeout', 60), 30 in DashScopeProvider: the
\* timeout of the completion request
CallTimeout(k, t) ==
    IF t.given THEN t.value
    ELSE IF k = "dashscope" THEN 30 ELSE 60

\* the timeout written in is_available()
ProbeTimeout(k) == IF k \in {"dashscope", "ollama"} THEN 5 ELSE 10

\* the body of a reply: the JSON the backend documents; JSON without the
\* choices / candidates / content / message entry; JSON with that entry
\* empty; not JSON
Bodies == {"well_formed", "no_choices", "empty_choices", "not_json"}

Replies ==
    {[kind |-> o.kind, status |-> o.status, body |-> b, model |-> m] :
        o \in Outcomes, b \in Bodies, m \in {Absent, "backend-reported"}}

Raised == [kind |-> "raise", content |-> Absent, model |-> Absent]

Returned(k, content, m) ==
    [kind |-> "response", content |-> content, model |-> ResponseModel(k, m)]

\* chat_completion_sync (chat_completion in DashScopeProvider) from the reply
\* on: requests exceptions and non-200 raise, response.json() raises on what is
\* not JSON; result['choices'][0] raises KeyError or IndexError;
\* result.get('choices', [{}])[0] raises IndexError on an empty list only; the
\* other parsers fall back to content ''
Complete(k, reply) ==
    IF reply.kind # "status" \/ reply.status # 200 \/ reply.body = "not_json"
    THEN Raised
    ELSE CASE reply.body = "well_formed" -> Returned(k, "text", reply.model)
           [] reply.body = "no_choices" ->
                 IF k = "dashscope" THEN Raised ELSE Returned(k, "", reply.model)
           [] OTHER ->
                 IF k \in {"dashscope", "deepseek", "siliconflow"}
                 THEN Raised ELSE Returned(k, "", reply.model)

ApplyIsAvailable ==
    \E k \in AdapterKeys, o \in Outcomes :
       /\ adapterCall = NoCall
       /\ adapterCall' = [method |-> "is_available", provider |-> k, input |-> o]
       /\ adapterRet' = [kind |-> "bool", value |-> IsAvailable(k, o)]
       /\ UNCHANGED <<routervars, opvars, appvars>>

ApplyTimeouts ==
    \E k \in AdapterKeys, t \in TimeoutConfigs :
       /\ adapterCall = NoCall
       /\ adapterCall' = [method |-> "timeouts", provider |-> k, input |-> t]
       /\ adapterRet' = [kind |-> "timeouts", call |-> CallTimeout(k, t),
                         probe |-> ProbeTimeout(k)]
       /\ UNCHANGED <<routervars, opvars, appvars>>

ApplyComplete ==
    \E k \in AdapterKeys, reply \in Replies :
       /\ adapterCall = NoCall
       /\ adapterCall' = [method |-> "complete", provider |-> k, input |-> reply]
       /\ adapterRet' = Complete(k, reply)
       /\ UNCHANGED <<routervars, opvars, appvars>>

\* the 'tools' keyword of chat_completion(messages, **kwargs): not passed,
\* an empty list, or a list of schemas
ToolOptions ==
    {[given |-> FALSE, schemas |-> <<>>], [given |-> TRUE, schemas |-> <<>>],
     [given |-> TRUE, schemas |-> <<"get_weather">>],
     [given |-> TRUE, schemas |-> <<"get_weather", "get_latest_news">>]}

\* the tools of the request body: DashScopeProvider copies a non-empty
\* kwargs['tools'] into data['tools']; the other providers read only
\* temperature and max_tokens from kwargs
RequestTools(k, opt) ==
    IF k = "dashscope" /\ opt.given /\ opt.schemas # <<>>
    THEN [kind |-> "request", has_tools |-> TRUE, tools |-> opt.schemas]
    ELSE [kind |-> "request", has_tools |-> FALSE, tools |-> <<>>]

\* the router hands **kwargs on as they are (lines 163, 166, 181, 184)
ApplyForwardTools ==
    \E k \in AdapterKeys, opt \in ToolOptions :
       /\ adapterCall = NoCall
       /\ adapterCall' = [method |-> "forward_tools", provider |-> k, input |-> opt]
       /\ adapterRet' = RequestTools(k, opt)
       /\ UNCHANGED <<routervars, opvars, appvars>>

-----------------------------------------------------------------------------
(* chat_completion and chat_completion_async as functions of one steady
   environment: av[k] is what is_available() answers (FALSE also stands for
   a probe that raises), wk[k] whether provider k's request succeeds *)

\* DashScopeProvider alone defines no chat_completion_sync
HasSyncMethod(k) == k # "dashscope"

\* lines 162-167 and 179-184: the provider's chat_completion_sync, or
\* asyncio.run on its coroutine; asyncio.run raises RuntimeError before the
\* coroutine starts when the calling thread has a running event loop
SyncInvoke(k, wk, inLoop) ==
    IF HasSyncMethod(k) \/ ~inLoop
    THEN [called |-> TRUE, ok |-> wk[k]]
    ELSE [called |-> FALSE, ok |-> FALSE]

\* lines 206 and 219: await provider.chat_completion
AsyncInvoke(k, wk) == [called |-> TRUE, ok |-> wk[k]]

InvokeEvents(k, r) == IF r.called THEN <<CallEv(k, r.ok)>> ELSE <<>>

Outcome(tr, kind, k, cur) == [trace |-> tr, kind |-> kind, provider |-> k, current |-> cur]

Prepend(tr, o) == [o EXCEPT !.trace = tr \o @]

\* lines 171-192: the failover loop from position i on
RECURSIVE SyncLoop(_, _, _, _, _, _)
SyncLoop(provs, cur, av, wk, inLoop, i) ==
    IF i > Len(provs) THEN Outcome(<<>>, "all_failed", NoProvider, cur)
    ELSE LET k == provs[i]
             rest == SyncLoop(provs, cur, av, wk, inLoop, i + 1)
             r == SyncInvoke(k, wk, inLoop)
         IN IF k = cur THEN rest
            ELSE IF ~av[k] THEN Prepend(<<ProbeEv(k, "no")>>, rest)
            ELSE IF r.ok
                 THEN Outcome(<<ProbeEv(k, "yes")>> \o InvokeEvents(k, r), "response", k, k)
                 ELSE Prepend(<<ProbeEv(k, "yes")>> \o InvokeEvents(k, r), rest)

\* lines 208-226
RECURSIVE AsyncLoop(_, _, _, _, _)
AsyncLoop(provs, cur, av, wk, i) ==
    IF i > Len(provs) THEN Outcome(<<>>, "all_failed", NoProvider, cur)
    ELSE LET k == provs[i]
             rest == AsyncLoop(provs, cur, av, wk, i + 1)
             r == AsyncInvoke(k, wk)
         IN IF k = cur THEN rest
            ELSE IF ~av[k] THEN Prepend(<<ProbeEv(k, "no")>>, rest)
            ELSE IF r.ok
                 THEN Outcome(<<ProbeEv(k, "yes")>> \o InvokeEvents(k, r), "response", k, k)
                 ELSE Prepend(<<ProbeEv(k, "yes")>> \o InvokeEvents(k, r), rest)

\* LLMRouter.chat_completion, lines 148-192
ChatCompletion(provs, cur, av, wk, inLoop) ==
    IF cur = NoProvider THEN Outcome(<<>>, "no_provider", NoProvider, cur)
    ELSE LET r == SyncInvoke(cur, wk, inLoop)
         IN IF r.ok THEN Outcome(InvokeEvents(cur, r), "response", cur, cur)
            ELSE Prepend(InvokeEvents(cur, r), SyncLoop(provs, cur, av, wk, inLoop, 1))

\* LLMRouter.chat_completion_async, lines 194-226
ChatCompletionAsync(provs, cur, av, wk) ==
    IF cur = NoProvider THEN Outcome(<<>>, "no_provider", NoProvider, cur)
    ELSE LET r == AsyncInvoke(cur, wk)
         IN IF r.ok THEN Outcome(InvokeEvents(cur, r), "response", cur, cur)
            ELSE Prepend(InvokeEvents(cur, r), AsyncLoop(provs, cur, av, wk, 1))

\* the provider lists the two methods are run on
RouterLists ==
    {<<"deepseek", "dashscope">>, <<"dashscope", "deepseek">>,
     <<"deepseek", "dashscope", "ollama">>}

\* both methods run from the same router state in the same environment;
\* inLoop: the caller of the synchronous method is itself a coroutine
ApplyBothCompletions ==
    \E provs \in RouterLists, inLoop \in BOOLEAN :
      \E cur \in Range(provs) \cup {NoProvider},
         av \in [Range(provs) -> BOOLEAN], wk \in [Range(provs) -> BOOLEAN] :
       /\ adapterCall = NoCall
       /\ adapterCall' = [method |-> "chat_completion", provider |-> cur,
                          input |-> [providers |-> provs, avail |-> av,
                                     works |-> wk, in_event_loop |-> inLoop]]
       /\ adapterRet' = [kind |-> "both",
                         sync |-> ChatCompletion(provs, cur, av, wk, inLoop),
                         async |-> ChatCompletionAsync(provs, cur, av, wk)]
       /\ UNCHANGED <<routervars, opvars, appvars>>

-----------------------------------------------------------------------------
(* The requests ClaudeProvider and GeminiProvider build *)

\* strings are sequences of characters
Contents == {<<"a">>, <<"b">>, <<" ">>}

Roles == {"system", "user", "assistant"}

\* LLMMessage(role, content)
Messages == [role : Roles, content : Contents]

MessageLists == UNION {[1..n -> Messages] : n \in 0..MaxMsgs}

IsSpace(ch) == ch \in {" ", "\n"}

RECURSIVE LStrip(_)
LStrip(s) ==
    IF s = <<>> THEN s
    ELSE IF IsSpace(Head(s)) THEN LStrip(Tail(s)) ELSE s

RECURSIVE RStrip(_)
RStrip(s) ==
    IF s = <<>> THEN s
    ELSE IF IsSpace(s[Len(s)]) THEN RStrip(SubSeq(s, 1, Len(s) - 1)) ELSE s

\* str.strip()
Strip(s) == LStrip(RStrip(s))

\* the loop's system_message += msg.content + "\n" over the system messages
RECURSIVE SystemText(_)
SystemText(msgs) ==
    IF msgs = <<>> THEN <<>>
    ELSE IF Head(msgs).role = "system"
         THEN Head(msgs).content \o <<"\n">> \o SystemText(Tail(msgs))
         ELSE SystemText(Tail(msgs))

\* ClaudeProvider passes msg.role on; GeminiProvider writes "user" for user
\* and "model" for anything else
BackendRole(k, role) ==
    IF k = "gemini" THEN (IF role = "user" THEN "user" ELSE "model") ELSE role

\* the request of chat_completion_sync: the system field (data["system"],
\* data["systemInstruction"]) is set when the stripped text is not empty; the
\* messages are those whose role is not system
BuildRequest(k, msgs) ==
    LET text == Strip(SystemText(msgs))
        NonSystem(m) == m.role # "system"
        rest == SelectSeq(msgs, NonSystem)
    IN [kind |-> "request",
        has_system |-> (text # <<>>),
        system |-> text,
        messages |-> [i \in 1..Len(rest) |->
                         [role |-> BackendRole(k, rest[i].role),
                          content |-> rest[i].content]]]

ApplyBuildRequest ==
    \E k \in {"claude", "gemini"}, msgs \in MessageLists :
       /\ adapterCall = NoCall
       /\ adapterCall' = [method |-> "build_request", provider |-> k, input |-> msgs]
       /\ adapterRet' = BuildRequest(k, msgs)
       /\ UNCHANGED <<routervars, opvars, appvars>>

-----------------------------------------------------------------------------
(* One tool-enabled chat turn: _generate_response_with_plugins from the     *)
(* first request on (api_key set, the plugin manager has function schemas)  *)

ToolCallRecs == [id : {"call_1", Absent}, name : FuncNames, arguments : ArgValues]

\* a second invocation in the same reply
SecondCall == [id |-> "call_2", name |-> "get_latest_news", arguments |-> "empty_object_string"]

\* the "tool_calls" entry: missing, or null / an empty list, or one or two
\* invocations
ToolCallsFields ==
    {[present |-> FALSE, calls |-> <<>>], [present |-> TRUE, calls |-> <<>>]}
       \cup {[present |-> TRUE, calls |-> <<tc>>] : tc \in ToolCallRecs}
       \cup {[present |-> TRUE, calls |-> <<tc, SecondCall>>] : tc \in ToolCallRecs}

FunctionCallFields ==
    {NoFunctionCall} \cup [present : {TRUE}, name : FuncNames, arguments : ArgValues]

\* result["choices"][0]["message"]
AssistantMessages == [tool_calls : ToolCallsFields, function_call : FunctionCallFields]

\* lines 477-480 and 489-492: json.loads of a str, the value itself otherwise,
\* {} when json.loads raises
DecodeArgs(a) ==
    CASE a \in {"absent", "empty_object_string", "malformed_string"} ->
            [is_map |-> TRUE, keys |-> {}]
      [] a \in {"object_string", "object"} ->
            [is_map |-> TRUE, keys |-> {"location"}]
      [] OTHER ->
            [is_map |-> FALSE, keys |-> {}]

\* line 473: assistant_message["tool_calls"][0]
FirstInvocation(calls) == calls[1]

\* lines 467-493: the tools format when "tool_calls" is there and not empty,
\* else the functions format when "function_call" is there
Decode(m) ==
    IF m.tool_calls.present /\ m.tool_calls.calls # <<>>
    THEN LET tc == FirstInvocation(m.tool_calls.calls)
         IN [format |-> "tools", name |-> tc.name, id |-> tc.id, raw |-> tc.arguments,
             args |-> DecodeArgs(tc.arguments)]
    ELSE IF m.function_call.present
         THEN [format |-> "functions", name |-> m.function_call.name, id |-> Absent,
               raw |-> m.function_call.arguments,
               args |-> DecodeArgs(m.function_call.arguments)]
         ELSE NoDecode

\* lines 497-504: get_weather without a location gets one
ExecArgs(d) ==
    IF d.name = "get_weather" THEN d.args.keys \cup {"location"} ELSE d.args.keys

\* lines 536-550: the tool-result message; "tool_calls" in assistant_message
\* picks the format, and [0] of an empty list (or of null) raises
EncodeResult(m, d) ==
    IF m.tool_calls.present
    THEN IF m.tool_calls.calls = <<>>
         THEN [kind |-> "raise", role |-> Absent, id |-> Absent, name |-> Absent]
         ELSE [kind |-> "message", role |-> "tool", id |-> m.tool_calls.calls[1].id,
               name |-> d.name]
    ELSE [kind |-> "message", role |-> "function", id |-> Absent, name |-> d.name]

TurnEvent(ev, what) ==
    [ev |-> ev, what |-> what, role |-> Absent, name |-> Absent, id |-> Absent,
     keys |-> {}, status |-> 0]

Sent(fmt) == TurnEvent("request", fmt)
Replied(o) == [TurnEvent("reply", o.kind) EXCEPT !.status = o.status]
Caught == TurnEvent("exception", "caught")
Ran(what, d) == [TurnEvent("plugin", what) EXCEPT !.name = d.name, !.keys = ExecArgs(d)]
SentFollowup(e) ==
    [TurnEvent("request", "followup") EXCEPT !.role = e.role, !.name = e.name, !.id = e.id]

\* lines 641-645: except Exception: return self._get_fallback_response(...)
TurnFallback(events) ==
    /\ tlog' = tlog \o events \o <<Caught>>
    /\ tpc' = "end"
    /\ treply' = "fallback"

\* lines 425-436: the first request, in the tools / tool_choice format
TurnSendTools ==
    /\ tpc = "start"
    /\ tlog' = <<Sent("tools")>>
    /\ tpc' = "sent_tools"
    /\ UNCHANGED <<routervars, opvars, fnvars, storevars, tmsg, tdec, treply>>

\* (mutant) the functions format is tried again while it is refused
TurnReply_Retries ==
    /\ tpc \in {"sent_tools", "sent_functions"}
    /\ \E o \in Outcomes :
          IF o.kind # "status"
          THEN TurnFallback(<<Replied(o)>>)
          ELSE IF o.status = 200
               THEN tlog' = Append(tlog, Replied(o)) /\ tpc' = "parse" /\ treply' = treply
               ELSE /\ tlog' = tlog \o <<Replied(o), Sent("functions")>>
                    /\ tpc' = "sent_functions" /\ treply' = treply
                    /\ Len(tlog) < 6
    /\ UNCHANGED <<routervars, opvars, fnvars, storevars, tmsg, tdec>>

\* lines 436-461: the reply to the first request; a status other than 200
\* re-sends it once in the functions / function_call format, and a second one
\* returns the fallback reply
TurnReply ==
    /\ tpc \in {"sent_tools", "sent_functions"}
    /\ \E o \in Outcomes :
          IF o.kind # "status"
          THEN TurnFallback(<<Replied(o)>>)
          ELSE IF o.status = 200
               THEN tlog' = Append(tlog, Replied(o)) /\ tpc' = "parse" /\ treply' = treply
               ELSE IF tpc = "sent_tools"
                    THEN /\ tlog' = tlog \o <<Replied(o), Sent("functions")>>
                         /\ tpc' = "sent_functions" /\ treply' = treply
                    ELSE /\ tlog' = Append(tlog, Replied(o))
                         /\ tpc' = "end" /\ treply' = "fallback"
    /\ UNCHANGED <<routervars, opvars, fnvars, storevars, tmsg, tdec>>

\* lines 463-493: response.json() and result["choices"][0]["message"] raise on
\* a body without them; otherwise the invocation is decoded
TurnParse ==
    /\ tpc = "parse"
    /\ \/ TurnFallback(<<>>) /\ UNCHANGED <<tmsg, tdec>>
       \/ \E m \in AssistantMessages :
             /\ tmsg' = m
             /\ tdec' = Decode(m)
             /\ tpc' = "decoded"
             /\ UNCHANGED <<tlog, treply>>
    /\ UNCHANGED <<routervars, opvars, fnvars, storevars>>

\* lines 628-639: no func_name: the content of the reply is returned (strip()
\* of a null content raises)
TurnAnswer ==
    /\ tpc = "decoded"
    /\ tdec.name = Absent
    /\ \/ tpc' = "end" /\ treply' = "content" /\ tlog' = tlog
       \/ TurnFallback(<<>>)
    /\ UNCHANGED <<routervars, opvars, fnvars, storevars, tmsg, tdec>>

\* lines 495-527: the plugin runs with func_args; `in`, item assignment and
\* ** on what is not a dict raise before it runs
TurnExecute ==
    /\ tpc = "decoded"
    /\ tdec.name # Absent
    /\ IF ~tdec.args.is_map
       THEN TurnFallback(<<>>)
       ELSE \/ TurnFallback(<<Ran("raise", tdec)>>)
            \/ /\ tlog' = Append(tlog, Ran("run", tdec))
               /\ tpc' = "executed"
               /\ treply' = treply
    /\ UNCHANGED <<routervars, opvars, fnvars, storevars, tmsg, tdec>>

\* lines 529-616: the follow-up request with the tool-result message
TurnSendFollowup ==
    /\ tpc = "executed"
    /\ LET e == EncodeResult(tmsg, tdec)
       IN IF e.kind = "raise"
          THEN TurnFallback(<<>>)
          ELSE /\ tlog' = Append(tlog, SentFollowup(e))
               /\ tpc' = "sent_followup"
               /\ treply' = treply
    /\ UNCHANGED <<routervars, opvars, fnvars, storevars, tmsg, tdec>>

\* lines 617-627: the final reply, or the reply built from the plugin result
\* when the status is not 200
TurnFinal ==
    /\ tpc = "sent_followup"
    /\ \E o \in Outcomes :
          IF o.kind # "status"
          THEN TurnFallback(<<Replied(o)>>)
          ELSE IF o.status = 200
               THEN \/ /\ tlog' = Append(tlog, Replied(o))
                       /\ tpc' = "end" /\ treply' = "final"
                    \/ TurnFallback(<<Replied(o)>>)
               ELSE /\ tlog' = Append(tlog, Replied(o))
                    /\ tpc' = "end" /\ treply' = "from_plugin_result"
    /\ UNCHANGED <<routervars, opvars, fnvars, storevars, tmsg, tdec>>

-----------------------------------------------------------------------------
(* PUT and DELETE /messages/{message_id} over the chat_messages table *)

MessageIds == 1..MaxMessageId

\* user_id as the request gives it
UserIds == {"alice", "bob", ""}

\* new_content: empty after strip(), longer than 2000 characters, or valid
NewContents == {"", "too_long", "c2"}

\* DatabaseManager.get_message: the row with that id, filtered by owner only
\* `if user_id:`; a set with the row, or empty for None
GetMessage(id, user) ==
    {m \in store : m.id = id /\ (user = "" \/ m.user = user)}

Earliest(S) == CHOOSE m \in S : \A n \in S : m.at <= n.at
Latest(S) == CHOOSE m \in S : \A n \in S : n.at <= m.at
HighestId(S) == CHOOSE m \in S : \A n \in S : n.id <= m.id
Distance(a, b) == IF a >= b THEN a - b ELSE b - a

\* delete_message, lines 440-500: the assistant message deleted with a user
\* message: the first one after it; failing that the latest one of the
\* session when within RecallWindow, the one with the highest id otherwise
AiReply(msg) ==
    LET ai == {m \in store : m.session = msg.session /\ m.role = "assistant"}
        after == {m \in ai : m.at > msg.at}
    IN IF after # {} THEN {Earliest(after)}
       ELSE IF ai = {} THEN {}
       ELSE IF Distance(Latest(ai).at, msg.at) <= RecallWindow
            THEN {Latest(ai)} ELSE {HighestId(ai)}

ToDelete(msg) == {msg} \cup (IF msg.role = "user" THEN AiReply(msg) ELSE {})

\* _generate_ai_response_for_edited_message: user_id = request.user_id or
\* "anonymous"; the assistant row it saves
Regenerated(msg, user) ==
    [id |-> nextId, session |-> msg.session,
     user |-> (IF user = "" THEN "anonymous" ELSE user),
     role |-> "assistant", content |-> "r", at |-> nextId]

Answered(op, id, user, status) == [op |-> op, id |-> id, user |-> user, status |-> status]

\* update_message of routers/chat.py: 400 on an empty or too long content,
\* 404 when get_message finds nothing; otherwise the later messages of the
\* session are deleted, the content is replaced and the reply is
\* regenerated (a failure there still answers 200)
EditMessage(id, user, content) ==
    /\ IF content \in {"", "too_long"}
       THEN /\ http' = Answered("edit", id, user, 400)
            /\ UNCHANGED <<store, nextId>>
       ELSE IF GetMessage(id, user) = {}
       THEN /\ http' = Answered("edit", id, user, 404)
            /\ UNCHANGED <<store, nextId>>
       ELSE LET msg == CHOOSE m \in GetMessage(id, user) : TRUE
                kept == {m \in store :
                            ~(m.session = msg.session /\ m.at > msg.at) /\ m # msg}
                edited == [msg EXCEPT !.content = content]
            IN /\ http' = Answered("edit", id, user, 200)
               /\ \/ /\ nextId <= MaxMessageId
                     /\ store' = kept \cup {edited, Regenerated(msg, user)}
                     /\ nextId' = nextId + 1
                  \/ /\ store' = kept \cup {edited}
                     /\ nextId' = nextId
    /\ UNCHANGED <<routervars, opvars, fnvars, turnvars>>

\* delete_message of routers/chat.py: 404 when get_message finds nothing, 403
\* for a message that is not a user message or not the latest user message
\* of that user_id in the session; otherwise the message and its reply go
RecallMessage(id, user) ==
    /\ IF GetMessage(id, user) = {}
       THEN /\ http' = Answered("recall", id, user, 404)
            /\ store' = store
       ELSE LET msg == CHOOSE m \in GetMessage(id, user) : TRUE
                mine == {m \in store : /\ m.session = msg.session
                                         /\ m.user = user
                                         /\ m.role = "user"}
            IN IF msg.role # "user" \/ mine = {} \/ Latest(mine).id # msg.id
               THEN /\ http' = Answered("recall", id, user, 403)
                    /\ store' = store
               ELSE /\ http' = Answered("recall", id, user, 200)
                    /\ store' = store \ ToDelete(msg)
    /\ nextId' = nextId
    /\ UNCHANGED <<routervars, opvars, fnvars, turnvars>>

-----------------------------------------------------------------------------
(* Specifications *)

CallStep(c) ==
    \/ Begin(c)
    \/ FirstSucceeds(c)
    \/ FirstFails(c)
    \/ LoopNext(c)
    \/ LoopExhausted(c)
    \/ ProbeAvailable(c)
    \/ ProbeUnavailable(c)
    \/ ProbeRaises(c)
    \/ FallbackSucceeds(c)
    \/ FallbackFails(c)
    \/ \E name \in SwitchNames : SwitchProvider(c, name)

\* the steps of the two read operations when caller c runs them
ObserveStep(c) ==
    \/ ListBegin(c)
    \/ ListProbe(c)
    \/ Describe(c)

\* one client: operations never overlap
Next ==
    \/ CallStep(1)
    \/ EnvChange

Spec == Init /\ [][Next]_vars

\* several clients, their operations interleaved
NextConc ==
    \/ \E c \in Callers : CallStep(c)
    \/ EnvChange

SpecConc == InitConc /\ [][NextConc]_vars

\* caller 1 completes and switches while caller 2 lists and describes
NextObserve ==
    \/ CallStep(1)
    \/ ObserveStep(2)
    \/ EnvChange

SpecObserve == InitConc /\ [][NextObserve]_vars

\* one client of a router built from any configuration, backends steady
NextConfig ==
    \/ CallStep(1)
    \/ ObserveStep(1)

SpecConfig == InitConfig /\ [][NextConfig]_vars

\* one adapter method applied on its own, on every input of the bounded sets
InitAdapter ==
    /\ InitWith({ConfigTwo})
    /\ \A k \in Range(providers) : avail[k] /\ works[k]

NextAdapter ==
    \/ ApplyIsAvailable
    \/ ApplyTimeouts
    \/ ApplyComplete
    \/ ApplyBuildRequest
    \/ ApplyForwardTools
    \/ ApplyBothCompletions

SpecAdapter == InitAdapter /\ [][NextAdapter]_vars

\* one tool-enabled chat turn
NextTurn ==
    \/ TurnSendTools
    \/ TurnReply
    \/ TurnParse
    \/ TurnAnswer
    \/ TurnExecute
    \/ TurnSendFollowup
    \/ TurnFinal

SpecTurn == InitAdapter /\ [][NextTurn]_vars

\* edits and recalls on the message table
NextStore ==
    \/ \E id \in MessageIds, user \in UserIds, content \in NewContents :
          EditMessage(id, user, content)
    \/ \E id \in MessageIds, user \in UserIds : RecallMessage(id, user)

SpecStore == InitAdapter /\ [][NextStore]_vars

\* one client whose deadline may pass during its call
NextDeadline ==
    \/ Next
    \/ DeadlineExpires(1)

SpecDeadline == Init /\ [][NextDeadline]_vars

-----------------------------------------------------------------------------
(* Claims *)

Last(s) == s[Len(s)]

\* caller c's chat_completion returned the response of a failover provider
FailedOver(c) ==
    /\ pc[c] = "done"
    /\ result[c].kind = "response"
    /\ Len(Calls(c)) >= 2

\* C1: when the current provider fails and another provider, probed available,
\* answers, the call returns that provider's response, current_provider becomes
\* that provider, and the client's next chat_completion goes first to it and
\* not to the provider that failed.
C1_StickyFailover ==
    [][\A c \in Callers :
          FailedOver(c) =>
             LET to == Last(Calls(c)).p
                 failed == Calls(c)[1].p
             IN /\ Calls(c)[1].res = "fail"
                /\ Last(Probes(c)) = ProbeEv(to, "yes")
                /\ Last(Calls(c)).res = "ok"
                /\ result[c].provider = to
                /\ current = to
                /\ to # failed
                /\ (pc'[c] = "first" => target'[c] = to /\ target'[c] # failed)]_vars

C1_Witness ==
    /\ FailedOver(1)
    /\ current = Last(Calls(1)).p
    /\ current # Calls(1)[1].p

\* C2: construction probes the providers in ascending priority order and stops
\* at the first that is available; a chat_completion started right after
\* construction goes to that provider, and when it answers, its response is
\* returned and no provider is probed: with A unavailable and B, C available,
\* B serves the call and C is never probed.
C2_InitialSelection ==
    /\ Len(initProbes) <= Len(providers)
    /\ \A i \in 1..Len(initProbes) :
          /\ initProbes[i].p = providers[i]
          /\ i < Len(initProbes) => initProbes[i].res = "no"
          /\ \A j \in 1..i : config[providers[j]].priority <= config[providers[i]].priority
    /\ \/ initProbes # <<>> /\ Last(initProbes).res = "yes"
       \/ Len(initProbes) = Len(providers) /\ \A i \in 1..Len(initProbes) : initProbes[i].res = "no"
    /\ pristine =>
          current = (IF initProbes # <<>> /\ Last(initProbes).res = "yes"
                     THEN Last(initProbes).p ELSE NoProvider)
    /\ \A c \in Callers :
          (firstOp[c] /\ initProbes # <<>> /\ Last(initProbes).res = "yes") =>
             LET sel == Last(initProbes).p
             IN /\ pc[c] = "first" => target[c] = sel
                /\ Calls(c) # <<>> => Calls(c)[1].p = sel
                /\ (Calls(c) # <<>> /\ Calls(c)[1].res = "ok") =>
                      /\ result[c].kind = "response"
                      /\ result[c].provider = sel
                      /\ Probes(c) = <<>>

\* A (priority 2) was unavailable, B (5) and C (6) available: B answered, C unprobed
C2_Witness ==
    /\ providers = <<"deepseek", "ollama", "dashscope">>
    /\ initProbes = <<Probe("deepseek", FALSE), Probe("ollama", TRUE)>>
    /\ firstOp[1]
    /\ pc[1] = "done"
    /\ result[1].kind = "response"
    /\ result[1].provider = "ollama"
    /\ trace[1] = <<CallEv("ollama", TRUE)>>

\* the errors of the providers caller c called, in the order it called them
AttemptErrors(c) == [i \in 1..Len(Calls(c)) |-> CallError(Calls(c)[i].p)]

\* C3: when every provider attempted in one chat_completion fails, the error
\* raised carries exactly one underlying error per provider attempted, in the
\* order attempted.
C3_AggregateError ==
    \A c \in Callers :
       (pc[c] = "done" /\ result[c].kind = "all_failed") =>
          result[c].errors = AttemptErrors(c)

\* C4: with two providers both unavailable at construction,
\* get_current_provider_info reports no provider; once the second provider is
\* available and a chat_completion is made, the second provider is current.
C4_LateSelection ==
    [][/\ (pristine /\ Len(providers) = 2
             /\ \A i \in 1..Len(initProbes) : initProbes[i].res = "no")
          => (CurrentProviderInfo.name = "None" /\ ~CurrentProviderInfo.available)
       /\ \A c \in Callers :
             (/\ Len(providers) = 2
              /\ current = NoProvider
              /\ ~avail[providers[1]]
              /\ avail[providers[2]] /\ works[providers[2]]
              /\ Begin(c))
             => current' = providers[2]]_vars

NoDuplicates(s) == \A i, j \in 1..Len(s) : s[i].p = s[j].p => i = j

\* C5: in one chat_completion that overlaps no other operation, each provider
\* is called at most once: the provider that failed first is left out of the
\* failover loop (neither probed nor called again) and every other provider is
\* probed and called at most once.
C5_NoRetry ==
    \A c \in Callers :
       pc[c] # "switched" =>
       /\ NoDuplicates(Calls(c))
       /\ NoDuplicates(Probes(c))
       /\ \A i \in 1..Len(Probes(c)) : Calls(c) # <<>> /\ Probes(c)[i].p # Calls(c)[1].p

\* all three providers were called by one chat_completion
C5_Witness ==
    /\ pc[1] = "done"
    /\ Len(Calls(1)) = 3
    /\ Len(Probes(1)) = 2

\* C6: when the request to the current provider succeeds, current_provider and
\* self.providers are what they were when the call started, and the call has
\* probed and called no other provider.
C6_SuccessKeepsState ==
    [][\A c \in Callers :
          (pc[c] = "first" /\ pc'[c] = "done" /\ result'[c].kind = "response") =>
             /\ target[c] = current
             /\ current' = current
             /\ providers' = providers
             /\ result'[c].provider = current
             /\ trace'[c] = <<CallEv(current, TRUE)>>]_vars

\* the current provider answered while a provider ahead of it was available
C6_Witness ==
    /\ pc[1] = "done"
    /\ result[1].kind = "response"
    /\ trace[1] = <<CallEv(current, TRUE)>>
    /\ current # providers[1]
    /\ avail[providers[1]]

\* C7: switch_provider(name) succeeds, making the named provider current, only
\* if that provider probes available at that moment; when it is unavailable,
\* its probe raises, or no provider has the name, it fails and current_provider
\* stays; self.providers never changes.  After a success,
\* get_current_provider_info reports that provider and the next
\* chat_completion goes first to it.
C7_SwitchProvider ==
    [][\A c \in Callers :
          /\ \A name \in SwitchNames :
                SwitchProvider(c, name) =>
                   /\ providers' = providers
                   /\ IF \E k \in Named(name) : avail[k]
                      THEN /\ result'[c].kind = "switched"
                           /\ current' \in Named(name)
                           /\ result'[c].provider = current'
                           /\ Lower(CurrentProviderInfo'.name) = Lower(name)
                           /\ CurrentProviderInfo'.available
                      ELSE /\ result'[c].kind = "switch_failed"
                           /\ current' = current
                           /\ CurrentProviderInfo' = CurrentProviderInfo
          /\ (pc[c] = "switched" /\ result[c].kind = "switched") =>
                /\ current = result[c].provider
                /\ CurrentProviderInfo.name = ProviderName(result[c].provider)
                /\ pc'[c] = "first" => target'[c] = result[c].provider]_vars

\* a switch away from the provider selected at construction
C7_Witness ==
    /\ pc[1] = "switched"
    /\ result[1].kind = "switched"
    /\ current = result[1].provider
    /\ current # providers[1]
    /\ initProbes = <<Probe(providers[1], TRUE)>>

\* C8: from a chat_completion's read of current_provider to its own write
\* after failover, no other call and no switch_provider writes current_provider.
C8_ProtectedSection ==
    [][\A c \in Callers :
          InFlight(c) => \/ current' = current
                         \/ pc[c] = "fallback" /\ pc'[c] = "done"]_vars

\* the models the enabled providers are configured with
DeclaredModels == {config[k].model : k \in {x \in ProviderKeys : config[x].enabled}}

\* C9: with at least one provider available, the response chat_completion
\* returns names as its model the configured model of some enabled provider,
\* whatever the backend's reply says.
C9_ResponseModel ==
    \A c \in Callers :
       (pc[c] = "done" /\ result[c].kind = "response") =>
          result[c].model \in DeclaredModels

\* the call errors among the lines caller c's operation printed
LoggedCallErrors(c) ==
    LET IsCallLog(e) == e.ev = "log" /\ e.res = "call"
        lines == SelectSeq(trace[c], IsCallLog)
    IN [i \in 1..Len(lines) |-> CallError(lines[i].p)]

\* the errors of the requests of caller c that failed, in order
FailedCallErrors(c) ==
    LET Failed(e) == e.ev = "call" /\ e.res = "fail"
        failed == SelectSeq(trace[c], Failed)
    IN [i \in 1..Len(failed) |-> CallError(failed[i].p)]

\* C10: a chat_completion whose requests fail on A and on B (probed available)
\* and succeed on C (probed available), A, B, C being the providers in
\* priority order, returns C's response, and the router's output for that
\* call records A's error and then B's error; in general the output records
\* the error of every failed request, in the order the requests were made.
C10_FailoverDiagnostics ==
    \A c \in Callers :
       /\ LoggedCallErrors(c) = FailedCallErrors(c)
       /\ (/\ pc[c] = "done"
           /\ Len(providers) = 3
           /\ Calls(c) = <<CallEv(providers[1], FALSE), CallEv(providers[2], FALSE),
                           CallEv(providers[3], TRUE)>>)
          => /\ result[c].kind = "response"
             /\ result[c].provider = providers[3]
             /\ Probes(c) = <<ProbeEv(providers[2], "yes"), ProbeEv(providers[3], "yes")>>
             /\ Logs(c) = <<LogEv(CallError(providers[1])), LogEv(CallError(providers[2]))>>

C10_Witness ==
    /\ pc[1] = "done"
    /\ Len(providers) = 3
    /\ Calls(1) = <<CallEv(providers[1], FALSE), CallEv(providers[2], FALSE),
                    CallEv(providers[3], TRUE)>>
    /\ result[1].provider = providers[3]
    /\ current = providers[3]

\* no provider answered the probes of the construction
NoneAvailableAtInit == \A i \in 1..Len(initProbes) : initProbes[i].res = "no"

\* C11: when no provider probes available during construction, the router is
\* built with no current provider and get_current_provider_info reports the
\* name "None" with available False; a chat_completion made in that state
\* calls no provider and raises the "no provider" error, which differs from
\* the error of a call whose providers were tried and all failed.
C11_NoProviderOutcome ==
    /\ (pristine /\ NoneAvailableAtInit) =>
          /\ current = NoProvider
          /\ CurrentProviderInfo.name = "None"
          /\ ~CurrentProviderInfo.available
    /\ \A c \in Callers :
          pc[c] = "done" =>
             /\ (firstOp[c] /\ NoneAvailableAtInit) => result[c] = NoProviderError
             /\ result[c] = NoProviderError <=> Calls(c) = <<>>
             /\ result[c].kind = "all_failed" => Calls(c) # <<>>
             /\ result[c].kind = "no_provider" => result[c] = NoProviderError

\* three providers, none available at construction, and the first call made
C11_Witness ==
    /\ Len(providers) = 3
    /\ NoneAvailableAtInit
    /\ firstOp[1]
    /\ pc[1] = "done"
    /\ result[1] = NoProviderError
    /\ trace[1] = <<>>
    /\ current = NoProvider

\* caller c called provider k and it failed, or probed it and it did not
\* answer True
TriedInVain(c, k) ==
    \E i \in 1..Len(trace[c]) :
       /\ trace[c][i].p = k
       /\ \/ IsCall(trace[c][i]) /\ trace[c][i].res = "fail"
          \/ IsProbe(trace[c][i]) /\ trace[c][i].res # "yes"

\* C12: a chat_completion ends either with a response or with one error; the
\* error of a provider's call or probe reaches the caller only after every
\* provider of the list has been called and failed or has not probed
\* available.
C12_ErrorsContained ==
    \A c \in Callers :
       pc[c] = "done" =>
          /\ result[c].kind \in {"response", "no_provider", "all_failed"}
          /\ result[c].kind = "response" =>
                /\ Calls(c) # <<>>
                /\ Last(Calls(c)) = CallEv(result[c].provider, TRUE)
                /\ \A i \in 1..(Len(Calls(c)) - 1) : Calls(c)[i].res = "fail"
          /\ result[c].kind = "all_failed" =>
                /\ \A k \in Range(providers) : TriedInVain(c, k)
                /\ \A i \in 1..Len(Calls(c)) : Calls(c)[i].res = "fail"

\* the first provider failed, the second raised in its probe, the third was
\* called and failed: one error for the caller
C12_Witness ==
    /\ pc[1] = "done"
    /\ result[1].kind = "all_failed"
    /\ Len(providers) = 3
    /\ Len(Calls(1)) = 2
    /\ \E i \in 1..Len(trace[1]) : IsProbe(trace[1][i]) /\ trace[1][i].res = "raise"

\* C13: once the caller's deadline has passed while its chat_completion is in
\* the failover loop, the router probes and calls no further provider and the
\* call ends with a timeout error.
C13_DeadlineStopsFailover ==
    [][\A c \in Callers :
          (expired[c] /\ pc[c] \in {"loop", "probe", "fallback"}) =>
             /\ Calls(c)' = Calls(c)
             /\ Probes(c)' = Probes(c)
             /\ pc'[c] = "done" => result'[c].kind = "timeout"]_vars

\* the position of provider key k in provider_classes
DeclIndex(k) == CHOOSE i \in 1..Len(ProviderClasses) : ProviderClasses[i] = k

\* the provider keys that some operation of caller c has probed or called
Touched(c) ==
    {trace[c][i].p : i \in {j \in 1..Len(trace[c]) : ~IsLog(trace[c][j])}}

C15_MissingKeyFailsStartup ==
    \A k \in ProviderKeys :
       (config[k].enabled /\ RequiresApiKey(k)) => config[k].api_key

\* C16: get_current_provider_info and list_available_providers leave
\* current_provider and self.providers as they are, whatever the probes answer
\* (a probe may raise) and while a chat_completion of another caller is in
\* flight; the list returned has one entry (name, model, available) per
\* provider of self.providers, in their order.
C16_PureReads ==
    [][\A c \in Callers :
          /\ (pc[c] = "listing" \/ pc'[c] \in {"listing", "listed", "described"})
                /\ <<pc[c], report[c]>> # <<pc'[c], report'[c]>>
                /\ (\A d \in Callers \ {c} : pc'[d] = pc[d] /\ trace'[d] = trace[d])
                => /\ current' = current
                   /\ providers' = providers
                   /\ config' = config
          /\ pc'[c] = "listed" =>
                /\ Len(report'[c]) = Len(providers')
                /\ \A i \in 1..Len(providers') :
                      /\ report'[c][i].name = ProviderName(providers'[i])
                      /\ report'[c][i].model = config'[providers'[i]].model
                      /\ report'[c][i].available \in BOOLEAN
                      /\ report'[c][i].available => ~report'[c][i].error
          /\ (pc'[c] = "described" /\ pc[c] # "described") =>
                report'[c] = <<CurrentProviderInfo>>]_vars

\* caller 2 has listed both providers, the probe of the first raised, while
\* caller 1's chat_completion is in its failover
C16_Witness ==
    /\ pc[2] = "listed"
    /\ Len(report[2]) = 2
    /\ report[2][1].error
    /\ report[2][2].available
    /\ pc[1] \in {"probe", "fallback"}
    /\ current = providers[1]

\* C17: for every adapter, is_available() is True when the probe is answered
\* with status 400 or with success, and is False only when the probe ends in
\* a network failure, a timeout or an authentication rejection (401, 403).
C17_BadRequestIsAvailable ==
    adapterCall.method = "is_available" =>
       LET o == adapterCall.input
       IN /\ (o.kind = "status" /\ o.status \in {200, 400}) => adapterRet.value
          /\ ~adapterRet.value =>
                \/ o.kind \in {"network_error", "timeout"}
                \/ o.kind = "status" /\ o.status \in {401, 403}

\* C18: for every adapter and every configured timeout, the timeout of the
\* availability probe is strictly shorter than the timeout of the
\* completion request.
C18_ProbeTimeoutShorter ==
    adapterCall.method = "timeouts" => adapterRet.probe < adapterRet.call

\* C19: an adapter's completion returns a response only for a reply with
\* status 200 and a well-formed body; for any other status or a malformed
\* body it raises.
C19_MalformedReplyRaises ==
    adapterCall.method = "complete" =>
       LET reply == adapterCall.input
       IN adapterRet.kind = "response" <=>
             (reply.kind = "status" /\ reply.status = 200 /\ reply.body = "well_formed")

\* the number of system messages at the head of msgs
RECURSIVE LeadingCount(_)
LeadingCount(msgs) ==
    IF msgs = <<>> THEN 0
    ELSE IF Head(msgs).role = "system" THEN 1 + LeadingCount(Tail(msgs)) ELSE 0

\* the role the claim gives a message that stays in the list
ClaimedRole(k, role) == IF k = "gemini" /\ role = "assistant" THEN "model" ELSE role

\* C20: the request ClaudeProvider and GeminiProvider build from a message
\* list carries the leading system messages, concatenated in order, in the
\* system field, and every other message in its original relative order,
\* assistant renamed to model by GeminiProvider and user kept.
C20_LeadingSystemHoisted ==
    adapterCall.method = "build_request" =>
       LET msgs == adapterCall.input
           k == adapterCall.provider
           n == LeadingCount(msgs)
           rest == SubSeq(msgs, n + 1, Len(msgs))
       IN /\ adapterRet.system = Strip(SystemText(SubSeq(msgs, 1, n)))
          /\ adapterRet.messages =
                [i \in 1..Len(rest) |->
                    [role |-> ClaimedRole(k, rest[i].role), content |-> rest[i].content]]

\* C21: for every assistant message from which an invocation was decoded and
\* executed, the follow-up request carries the tool result in the format that
\* was detected when decoding (role tool for tool_calls, role function for
\* function_call) and, in the tool_calls format, the id of the invocation
\* that was decoded.
C21_ResultFormatRoundTrip ==
    [][(tpc = "executed" /\ tpc' # "executed") =>
          /\ tpc' = "sent_followup"
          /\ Last(tlog').role = (IF tdec.format = "tools" THEN "tool" ELSE "function")
          /\ tdec.format = "tools" => Last(tlog').id = tdec.id]_vars

\* C22: whatever the arguments of the decoded invocation are, decoding gives
\* an argument map, the empty one for a string that is not a JSON object,
\* and the plugin is then run with it: the turn is not ended by the decoding.
C22_ArgumentsDecodeToMap ==
    [][(tpc = "decoded" /\ tdec.name # Absent /\ tpc' # "decoded") =>
          /\ tdec.args.is_map
          /\ tdec.raw \in {"malformed_string", "array_string", "null_string"}
                => tdec.args.keys = {}
          /\ Len(tlog') > Len(tlog)
          /\ tlog'[Len(tlog) + 1].ev = "plugin"
          /\ tlog'[Len(tlog) + 1].keys = ExecArgs(tdec)]_vars

\* the positions of tlog that hold an event of kind ev
EventsOf(ev) == {i \in 1..Len(tlog) : tlog[i].ev = ev}

Refused(e) == e.ev = "reply" /\ e.what = "status" /\ e.status # 200

\* the name of the first invocation of the reply
FirstName ==
    IF tmsg.tool_calls.present /\ tmsg.tool_calls.calls # <<>>
    THEN tmsg.tool_calls.calls[1].name
    ELSE tmsg.function_call.name

\* C30: in one tool-enabled turn the first request is in the tools format; it
\* is re-sent, once, in the functions format only after a status other than
\* 200; a second such status returns the fallback reply with no plugin run.
\* At most one plugin runs, the first invocation of the reply, after the
\* first-phase reply and before the follow-up request; an exception ends the
\* turn with the fallback reply.
C30_ToolTurnProtocol ==
    /\ tlog # <<>> => tlog[1] = Sent("tools")
    /\ \A i \in EventsOf("request") :
          /\ tlog[i].what = "tools" => i = 1
          /\ tlog[i].what = "functions" => i = 3 /\ Refused(tlog[2])
          /\ tlog[i].what = "followup" => tlog[i - 1].ev = "plugin" /\ tlog[i - 1].what = "run"
    /\ (Len(tlog) >= 2 /\ Refused(tlog[2])) => tlog[3] = Sent("functions")
    /\ (Len(tlog) >= 4 /\ Refused(tlog[2]) /\ Refused(tlog[4])) =>
          /\ Len(tlog) = 4
          /\ tpc = "end"
          /\ treply = "fallback"
    /\ Cardinality(EventsOf("plugin")) <= 1
    /\ \A i \in EventsOf("plugin") :
          /\ tlog[i].name = FirstName
          /\ tlog[i - 1].ev = "reply" /\ tlog[i - 1].status = 200
          /\ i \in {3, 5}
    /\ \A i \in EventsOf("exception") :
          i = Len(tlog) /\ tpc = "end" /\ treply = "fallback"
    /\ tpc = "end" => treply \in {"fallback", "content", "final", "from_plugin_result"}

\* the tools format was refused, the functions format answered with two
\* invocations, the first one ran and the final reply came
C30_Witness ==
    /\ tpc = "end"
    /\ treply = "final"
    /\ Len(tlog) = 7
    /\ tlog[3] = Sent("functions")
    /\ Len(tmsg.tool_calls.calls) = 2
    /\ tlog[5].ev = "plugin"
    /\ tlog[5].name = "get_weather"

\* C23: when the caller passes tool schemas to chat_completion, the request
\* of the provider that handles the call, whichever it is, carries those
\* schemas unchanged.
C23_ToolsForwarded ==
    (adapterCall.method = "forward_tools"
        /\ adapterCall.input.given /\ adapterCall.input.schemas # <<>>)
       => (adapterRet.has_tools /\ adapterRet.tools = adapterCall.input.schemas)

\* the user_id is the owner of a stored message with that id
Owns(id, user) == \E m \in store : m.id = id /\ m.user = user

\* C24: an edit (with a valid content) or a recall whose message id does not
\* exist, or whose user_id is not the owner of the message, whatever the
\* user_id (the empty string included), is answered 404 and leaves every
\* stored message as it is.
C24_ForeignRequestRejected ==
    [][\A id \in MessageIds, user \in UserIds :
          (~Owns(id, user) /\ (EditMessage(id, user, "c2") \/ RecallMessage(id, user)))
             => (http'.status = 404 /\ store' = store)]_vars

\* self.providers without provider k, in the order of the list
Others(k) == LET NotK(x) == x # k IN SelectSeq(providers, NotK)

\* C25: when the current provider fails, the providers probed by that
\* chat_completion are the other providers of self.providers in the order of
\* the whole list (ascending priority), those before the failed one included:
\* the i-th probe goes to the i-th other provider, every further call goes to
\* a provider just probed available, and the call ends in error only after
\* all of them were probed.
C25_GlobalOrder ==
    \A c \in Callers :
       (pc[c] \in {"first", "loop", "probe", "fallback", "done"} /\ Calls(c) # <<>>) =>
          LET cand == Others(Calls(c)[1].p)
          IN /\ Len(Probes(c)) <= Len(cand)
             /\ \A i \in 1..Len(Probes(c)) : Probes(c)[i].p = cand[i]
             /\ \A i \in 2..Len(Calls(c)) :
                   \E j \in 1..Len(Probes(c)) :
                      Probes(c)[j].p = Calls(c)[i].p /\ Probes(c)[j].res = "yes"
             /\ (pc[c] = "done" /\ result[c].kind = "all_failed")
                   => Len(Probes(c)) = Len(cand)

\* a provider that is not the first of the list failed and the call was
\* answered by the first of the list, after a probe
C25_Witness ==
    /\ pc[1] = "done"
    /\ result[1].kind = "response"
    /\ Len(Calls(1)) = 2
    /\ Calls(1)[1].p # providers[1]
    /\ Calls(1)[2].p = providers[1]
    /\ Probes(1)[1] = ProbeEv(providers[1], "yes")

\* C26: whatever other chat_completion and switch_provider calls do to
\* current_provider meanwhile, one chat_completion never sends the request
\* twice to the provider it tried first, and it ends in error only after it
\* has probed or called every provider of the list.
C26_LoopUnaffected ==
    \A c \in Callers :
       (pc[c] \in {"first", "loop", "probe", "fallback", "done"} /\ Calls(c) # <<>>) =>
          /\ \A i \in 2..Len(Calls(c)) : Calls(c)[i].p # Calls(c)[1].p
          /\ (pc[c] = "done" /\ result[c].kind = "all_failed")
                => Range(providers) \subseteq Touched(c)

\* C27: current_provider is always None or a provider of self.providers, and
\* once it is a provider no step of chat_completion, switch_provider,
\* get_current_provider_info or list_available_providers makes it None again.
C27_CurrentStaysSet ==
    /\ [](current \in Range(providers) \cup {NoProvider})
    /\ [][current # NoProvider => current' # NoProvider]_vars

\* a router built with no provider available got its provider from a switch,
\* and kept it through a chat_completion that failed on every provider and
\* a listing
C27_Witness ==
    /\ NoneAvailableAtInit
    /\ current # NoProvider
    /\ pc[1] = "done"
    /\ result[1].kind = "all_failed"
    /\ pc[2] = "listed"

\* caller c's chat_completion ended in error after the current provider and
\* every other provider failed or probed unavailable
Exhausted(c) == pc[c] = "done" /\ result[c].kind = "all_failed"

\* C28: when the current provider fails and every other provider is
\* unavailable or fails, the call ends with current_provider unchanged, still
\* the provider that failed first, and the client's next chat_completion
\* sends its request to that same provider first.
C28_ExhaustedKeepsCurrent ==
    [][\A c \in Callers :
          /\ (pc[c] = "loop" /\ pc'[c] = "done") =>
                /\ Exhausted(c)'
                /\ current' = current
                /\ current' = Calls(c)[1].p
          /\ (Exhausted(c) /\ pc'[c] = "first") =>
                /\ target'[c] = Calls(c)[1].p
                /\ current' = Calls(c)[1].p]_vars

\* the second provider of the list failed, the first probed unavailable, the
\* third probed available and failed, and the second is still current
C28_Witness ==
    /\ Exhausted(1)
    /\ Len(providers) = 3
    /\ Calls(1)[1].p = providers[2]
    /\ Len(Calls(1)) = 2
    /\ Len(Probes(1)) = 2
    /\ Probes(1)[1].res # "yes"
    /\ current = providers[2]

\* C29: started from the same router state with the same provider
\* behaviours, chat_completion and chat_completion_async probe and call the
\* same providers in the same order, end with the same outcome (the same
\* provider's response or the same error) and leave the same
\* current_provider.
C29_SyncAsyncAgree ==
    adapterCall.method = "chat_completion" => adapterRet.sync = adapterRet.async

=============================================================================
